---- MODULE Spec2Model ----
(***************************************************************************)
(* PhotonReader: the RSVP scheduler (hooks/useRSVP, isDriver version), the  *)
(* narration driver (hooks/useEdgeTTS) and the session store                *)
(* (store/useStore), as mounted by app/page.tsx.                            *)
(*                                                                          *)
(* React is modelled as follows.  A handler (timer callback, promise        *)
(* continuation, media event, user action) changes the store, the hook      *)
(* state and the refs; the render it causes then runs one pass of the       *)
(* effects whose dependencies differ from the values of the previous render *)
(* (`rendered').  Handler, render and effect pass are one action (Commit).  *)
(* State set by an effect causes a further render, the action Render;       *)
(* while one is pending no handler runs.  An effect reads React state from  *)
(* the render's closure and refs / DOM properties live.                     *)
(*                                                                          *)
(* Time is counted in units of one narrated token: the audio of a chunk of  *)
(* n tokens lasts n units and its k-th mark starts at k.                    *)
(***************************************************************************)
EXTENDS Integers, Sequences, FiniteSets, TLC

\* ---------------------------------------------------------------- bounds
\* Number of tokens of the loaded document (content.length).
DocLen == 3
\* Tokens per narration chunk; the source sets 50, the model scales it down
\* together with the document.
CHUNK_SIZE == 2
\* Largest start time / probe time of the alignment-mapper inputs.
MaxTime == 3
\* Longest mark list of the alignment-mapper inputs.
MaxMarks == 3

\* Words of the built-in demo document (DEFAULT_CONTENT), scaled down with
\* the documents.
DEMO_LEN == 1
\* File ids (Date.now()) available to uploads.
MaxFiles == 2
\* Chunk texts of at most MaxText characters; rates of 0 to MaxWpmSteps slider steps.
MaxText == 3
MaxWpmSteps == 16
\* Words of the document in which seeks are measured.
MaxSeekLen == 32

\* ------------------------------------------------------- program constants
REWIND == 10
\* The currentFileId "demo" of the built-in document; uploads get 1, 2, ...
DEMO_ID == 0
\* setContent keeps the RECENT_LIMIT newest recent files.
RECENT_LIMIT == 5
\* wpm ceilings of setWpm / toggleAudio with narration on and off.
AUDIO_WPM_LIMIT == 250
WPM_LIMIT == 1000
BASE_WPM == 150
RATE_MAX == 100
RATE_MIN == -50
WPM_STEP == 25

\* The components of app/page.tsx that call useRSVP() with isDriver = true,
\* in the order React runs their effects.
Drivers == <<"FullScreenOverlay", "Redicle">>
DriverSet == {Drivers[i] : i \in 1..Len(Drivers)}

Min(a, b) == IF a < b THEN a ELSE b
Max(a, b) == IF a > b THEN a ELSE b

\* ------------------------------------------------------- alignment mapper
\* The "sticky" loop over marks: the last i (0-based) of the longest prefix
\* of marks whose start is <= t; -1 when marks[0].start > t.
RECURSIVE StickyFrom(_, _, _, _)
StickyFrom(ms, t, i, rel) ==
  IF i > Len(ms) THEN rel
  ELSE IF t >= ms[i].start THEN StickyFrom(ms, t, i + 1, i - 1)
  ELSE rel

\* Mutant: the window search of the first narrated version
\* (findIndex(m => t >= m.start && t < m.end)), 0-based, -1 when none.
RECURSIVE FindActiveFrom(_, _, _)
FindActiveFrom(ms, t, i) ==
  IF i > Len(ms) THEN -1
  ELSE IF t >= ms[i].start /\ t < ms[i].end THEN i - 1
  ELSE FindActiveFrom(ms, t, i + 1)

StickySearch_FindIndex(ms, t) == FindActiveFrom(ms, t, 1)

StickySearch(ms, t) == StickyFrom(ms, t, 1, -1)

\* relativeIndex of the sync effect: marks first, else interpolation over
\* the chunk's word count, else -1.
RelativeIndex(ms, t, dur, chunkWordCount) ==
  IF Len(ms) > 0 THEN StickySearch(ms, t)
  ELSE IF dur > 0 THEN (t * chunkWordCount) \div dur
  ELSE -1

\* Words of the chunk anchored at offset off.
ChunkWordCount(off) == Min(CHUNK_SIZE, DocLen - off)

\* The marks the narration service returns for a chunk of n tokens.
RECURSIVE ServiceMarks(_)
ServiceMarks(n) ==
  IF n = 0 THEN <<>>
  ELSE Append(ServiceMarks(n - 1), [start |-> n - 1, end |-> n])

VARIABLES
  currentIndex,    \* store.currentIndex
  isPlaying,       \* store.isPlaying
  isAudioEnabled,  \* store.isAudioEnabled
  hook,            \* per driver: useRSVP refs, useEdgeTTS state, its Audio element
  rendered,        \* values of the effect dependencies at the last render
  writers,         \* sources that set currentIndex in the current evaluation cycle
  serviceMarks,    \* whether the deployed /api/tts route returns word marks
  probe,           \* input and output of the alignment mapper (SpecMap)
  session          \* the persisted store with its documents (SpecStore)

vars == <<currentIndex, isPlaying, isAudioEnabled, hook, rendered, writers,
          serviceMarks, probe, session>>

\* ------------------------------------------------------ useEdgeTTS driver
\* State of one useEdgeTTS() instance with its Audio element and the refs of
\* the useRSVP() instance that owns it.  audioUrl is -1 (null) or the offset
\* of the chunk whose audio the blob URL holds; inflight holds the offsets of
\* the requests sent and not yet resolved.
InitHook ==
  [ audioStartedRef |-> FALSE, audioOffsetRef |-> 0, timerRef |-> -1,
    isLoading |-> FALSE, inflight |-> {}, audioUrl |-> -1, marks |-> <<>>,
    currentTime |-> 0, duration |-> 0,
    paused |-> TRUE, ended |-> FALSE, readyState |-> 0, isBlocked |-> FALSE,
    strayTimers |-> <<>>, oldChunk |-> FALSE, oldInflight |-> {} ]

\* oldChunk and oldInflight are history, not program state: the audio the
\* element holds, and the pending fetches, that were requested for a document
\* which has been replaced since.

\* fetchAudio up to its first await: setIsLoading(true) and the request.
FetchAudio(h, off) ==
  [h EXCEPT !.isLoading = TRUE, !.inflight = @ \cup {off},
            !.oldInflight = @ \ {off}]

\* audio.play(): refused by the page's autoplay policy (NotAllowedError, the
\* element stays paused) or accepted; playing an ended element restarts it.
\* play().catch(...) sets isBlocked on a refusal, and the .then(...) chained
\* to the catch clears it in both cases.
Play(h, allow) ==
  IF allow
  THEN [h EXCEPT !.paused = FALSE, !.ended = FALSE,
                 !.currentTime = IF h.ended THEN 0 ELSE @,
                 !.isBlocked = FALSE]
  ELSE [[h EXCEPT !.isBlocked = TRUE] EXCEPT !.isBlocked = FALSE]

Pause(h) == [h EXCEPT !.paused = TRUE]

\* stop(): pause and currentTime = 0 (the timeupdate of the seek included).
Stop(h) == [h EXCEPT !.paused = TRUE, !.ended = FALSE, !.currentTime = 0]

\* audioElement && !paused && !ended && readyState > 2
IsAudioActive(h) == ~h.paused /\ ~h.ended /\ h.readyState > 2

\* ------------------------------------------------------------ useRSVP effects
\* The dependency values of a render of the state (ci, pl, au, hk).
DepsOf(ci, pl, au, hk) ==
  [ currentIndex |-> ci, isPlaying |-> pl, isAudioEnabled |-> au,
    h |-> [d \in DriverSet |->
             [ isLoading |-> hk[d].isLoading, audioUrl |-> hk[d].audioUrl,
               marks |-> hk[d].marks, currentTime |-> hk[d].currentTime,
               duration |-> hk[d].duration ]] ]

Deps == DepsOf(currentIndex, isPlaying, isAudioEnabled, hook)

\* No render is pending: the effects have seen the current values.
Quiescent == rendered = Deps

StoreChanged(old, r) ==
  \/ old.isPlaying # r.isPlaying
  \/ old.currentIndex # r.currentIndex
  \/ old.isAudioEnabled # r.isAudioEnabled

FetchRuns(old, r, d) ==
  StoreChanged(old, r) \/ old.h[d].isLoading # r.h[d].isLoading

\* marks is a new array after every fetch that resolved true, whatever it
\* holds: isLoading fell and the continuation has set audioStartedRef.
MarksChanged(old, r, d, h) ==
  \/ old.h[d].marks # r.h[d].marks
  \/ old.h[d].isLoading /\ ~r.h[d].isLoading /\ h.audioStartedRef

SyncRuns(old, r, d, h) ==
  \/ StoreChanged(old, r)
  \/ old.h[d].currentTime # r.h[d].currentTime
  \/ MarksChanged(old, r, d, h)
  \/ old.h[d].duration # r.h[d].duration

TimerRuns(old, r, d) ==
  \/ StoreChanged(old, r)
  \/ old.h[d].isLoading # r.h[d].isLoading
  \/ old.h[d].audioUrl # r.h[d].audioUrl

\* 1. AUDIO FETCHING LOGIC
FetchEffect(r, d, h, allow) ==
  IF ~r.isPlaying \/ r.currentIndex >= DocLen THEN h
  ELSE IF ~r.isAudioEnabled THEN h
  ELSE IF ~h.audioStartedRef /\ ~r.h[d].isLoading
       THEN FetchAudio([h EXCEPT !.audioOffsetRef = r.currentIndex], r.currentIndex)
  ELSE IF h.audioStartedRef /\ h.paused /\ ~r.h[d].isLoading
       THEN Play(h, allow)
  ELSE h

\* 2. SYNC LOGIC: the index the effect passes to setCurrentIndex, or -1 when
\* it does not call it.
SyncTarget(r, d, h) ==
  IF ~r.isPlaying \/ ~r.isAudioEnabled THEN -1
  ELSE IF ~IsAudioActive(h) THEN -1
  ELSE LET rel == RelativeIndex(r.h[d].marks, r.h[d].currentTime, r.h[d].duration,
                                ChunkWordCount(h.audioOffsetRef))
           absoluteIndex == h.audioOffsetRef + rel
       IN IF rel # -1 /\ absoluteIndex # r.currentIndex
             /\ absoluteIndex < DocLen /\ absoluteIndex >= 0
          THEN absoluteIndex ELSE -1

\* 3. FAIL-SAFE / TIMER LOGIC (the cleanup of the previous run included).
\* timerRef is -1 or the currentIndex the pending callback has captured.
\* timerRef.current = setTimeout(...): the callback keeps the index of its
\* render.  A timer that is pending and not cleared stays pending when the
\* reference to it is overwritten.
SetTimer(h, index) ==
  [h EXCEPT !.strayTimers = IF h.timerRef # -1 THEN Append(@, h.timerRef) ELSE @,
            !.timerRef = index]

\* clearTimeout(timerRef.current), in the cleanup of the last run and at the
\* start of this one.
ClearTimer(h) == [h EXCEPT !.timerRef = -1]

\* Mutant: a timer effect that schedules without clearing.
TimerEffect_NoClear(r, d, h) ==
  IF ~r.isPlaying \/ r.currentIndex >= DocLen
  THEN (IF r.isAudioEnabled THEN Pause(h) ELSE h)
  ELSE IF r.isAudioEnabled /\ ~IsAudioActive(h)
       THEN SetTimer(h, r.currentIndex)
  ELSE IF ~r.isAudioEnabled
       THEN SetTimer(IF r.h[d].audioUrl # -1 THEN Pause(h) ELSE h, r.currentIndex)
  ELSE h

TimerEffect(r, d, h) ==
  LET c == ClearTimer(h) IN
  IF ~r.isPlaying \/ r.currentIndex >= DocLen
  THEN (IF r.isAudioEnabled THEN Pause(c) ELSE c)
  ELSE IF r.isAudioEnabled /\ ~IsAudioActive(c)
       THEN SetTimer(c, r.currentIndex)
  ELSE IF ~r.isAudioEnabled
       THEN SetTimer(IF r.h[d].audioUrl # -1 THEN Pause(c) ELSE c, r.currentIndex)
  ELSE c

\* One pass of the effects of every driver instance, in tree order.  State
\* set by an effect (setCurrentIndex, setIsLoading) lands in acc and is seen
\* by the next render, not by the effects of this pass.
RECURSIVE PassFrom(_, _, _, _, _)
PassFrom(i, old, r, acc, allow) ==
  IF i > Len(Drivers) THEN acc
  ELSE LET d == Drivers[i]
           h0 == acc.hook[d]
           h1 == IF FetchRuns(old, r, d) THEN FetchEffect(r, d, h0, allow) ELSE h0
           tgt == IF SyncRuns(old, r, d, h0) THEN SyncTarget(r, d, h1) ELSE -1
           h2 == IF TimerRuns(old, r, d) THEN TimerEffect(r, d, h1) ELSE h1
       IN PassFrom(i + 1, old, r,
                   [ hook |-> [acc.hook EXCEPT ![d] = h2],
                     currentIndex |-> IF tgt # -1 THEN tgt ELSE acc.currentIndex,
                     wrote |-> acc.wrote \/ tgt # -1 ],
                   allow)

\* ------------------------------------------------------------ session store
\* The store of useStore with its documents.  A document is its number of
\* words; content is the word count of the open document.  A recent file
\* keeps wordCount, progress and whether its fullText is a non-empty string.
InitSession ==
  [ content |-> DEMO_LEN, currentFileId |-> DEMO_ID, wpm |-> 250,
    isPlaying |-> FALSE, currentIndex |-> 0, recentFiles |-> <<>>,
    isAudioEnabled |-> FALSE ]

\* The mapper is not probed in the scheduler's specification.
NoProbe == [marks |-> <<>>, t |-> 0, duration |-> 0, chunkWordCount |-> CHUNK_SIZE, rel |-> -2]

Init ==
  /\ currentIndex = 0
  /\ isPlaying = FALSE
  /\ isAudioEnabled = FALSE
  /\ hook = [d \in DriverSet |-> InitHook]
  /\ rendered = DepsOf(0, FALSE, FALSE, [d \in DriverSet |-> InitHook])
  /\ writers = {}
  /\ serviceMarks \in BOOLEAN
  /\ probe = NoProbe
  /\ session = InitSession

\* A handler has left the state s (currentIndex, isPlaying, isAudioEnabled,
\* hook, writers): React re-renders and runs one pass of the effects whose
\* dependencies differ from the previous render.
Commit(s, allow) ==
  \E r \in {DepsOf(s.currentIndex, s.isPlaying, s.isAudioEnabled, s.hook)} :
  \E acc \in {PassFrom(1, rendered, r,
                       [hook |-> s.hook, currentIndex |-> s.currentIndex, wrote |-> FALSE],
                       allow)} :
     /\ currentIndex' = acc.currentIndex
     /\ isPlaying' = s.isPlaying
     /\ isAudioEnabled' = s.isAudioEnabled
     /\ hook' = acc.hook
     /\ rendered' = r
     /\ writers' = IF acc.wrote THEN s.writers \cup {"audio"} ELSE s.writers
     /\ UNCHANGED <<serviceMarks, probe, session>>

Here(w) ==
  [ currentIndex |-> currentIndex, isPlaying |-> isPlaying,
    isAudioEnabled |-> isAudioEnabled, hook |-> hook, writers |-> w ]

\* The re-render caused by state that an effect pass has set.
Render ==
  /\ ~Quiescent
  /\ \E allow \in BOOLEAN : Commit(Here(writers), allow)

\* ------------------------------------------------------------- store actions
\* togglePlaySmart: pause, or rewind REWIND words and play.
SmartToggle(s) ==
  IF s.isPlaying
  THEN [s EXCEPT !.isPlaying = FALSE]
  ELSE [s EXCEPT !.currentIndex = Max(0, s.currentIndex - REWIND),
                 !.isPlaying = TRUE, !.writers = {"user"}]

TogglePlaySmart ==
  /\ Quiescent
  /\ \E allow \in BOOLEAN : Commit(SmartToggle(Here({})), allow)

\* toggleAudio (the wpm clamp is not part of the scheduler state).
AudioToggle(s) == [s EXCEPT !.isAudioEnabled = ~s.isAudioEnabled]

ToggleAudio ==
  /\ Quiescent
  /\ \E allow \in BOOLEAN : Commit(AudioToggle(Here({})), allow)

\* seekByTime: wordsToSeek words backwards or forwards, clamped.
SeekIndex(index, back, wordsToSeek) ==
  IF back THEN Max(0, index - wordsToSeek)
  ELSE Min(DocLen - 1, index + wordsToSeek)

SeekByTime ==
  /\ Quiescent
  /\ \E back \in BOOLEAN, wordsToSeek \in {1, DocLen}, allow \in BOOLEAN :
       Commit([Here({"user"}) EXCEPT
                 !.currentIndex = SeekIndex(currentIndex, back, wordsToSeek)], allow)

\* setCurrentIndex from the table of contents (chapter.startIndex) or a word
\* click of the hybrid view.
JumpToIndex(index) ==
  /\ Quiescent
  /\ \E allow \in BOOLEAN :
       Commit([Here({"user"}) EXCEPT !.currentIndex = index], allow)

JumpTo == \E index \in 0..(DocLen - 1) : JumpToIndex(index)

\* ------------------------------------------------------------ timer callback
\* The setTimeout callback of the fail-safe / timer effect, armed at index.
\* Mutant: the callback without its end-of-document guard.
TimerTick_Unguarded(s, index) ==
  [s EXCEPT !.currentIndex = index + 1, !.writers = {"timer"}]

TimerTick(s, index) ==
  IF index + 1 < DocLen
  THEN [s EXCEPT !.currentIndex = index + 1, !.writers = {"timer"}]
  ELSE [s EXCEPT !.isPlaying = FALSE]

\* The pending timers of a hook: the one timerRef refers to, then the others.
PendingTimers(h) ==
  (IF h.timerRef # -1 THEN <<h.timerRef>> ELSE <<>>) \o h.strayTimers

\* The k-th pending timer is taken off the list as it fires.
Fired(h, k) ==
  IF h.timerRef # -1
  THEN IF k = 1 THEN [h EXCEPT !.timerRef = -1]
       ELSE [h EXCEPT !.strayTimers = SubSeq(@, 1, k - 2) \o SubSeq(@, k, Len(@))]
  ELSE [h EXCEPT !.strayTimers = SubSeq(@, 1, k - 1) \o SubSeq(@, k + 1, Len(@))]

TimerFire(d) ==
  /\ Quiescent
  /\ \E k \in 1..Len(PendingTimers(hook[d])), allow \in BOOLEAN :
       Commit(TimerTick([Here({}) EXCEPT !.hook[d] = Fired(hook[d], k)],
                        PendingTimers(hook[d])[k]),
              allow)

\* ------------------------------------------------------- fetch continuations
\* fetchAudio resolves true: setAudioUrl, setMarks, src = url, load(),
\* setIsLoading(false); then the caller's continuation: audioStartedRef and
\* play().
FetchResolved(h, off, allow) ==
  Play([h EXCEPT !.inflight = @ \ {off}, !.isLoading = FALSE,
                 !.audioUrl = off,
                 !.marks = IF serviceMarks THEN ServiceMarks(ChunkWordCount(off)) ELSE <<>>,
                 !.paused = TRUE, !.ended = FALSE, !.readyState = 0,
                 !.currentTime = 0,
                 !.audioStartedRef = TRUE,
                 !.oldChunk = (off \in h.oldInflight),
                 !.oldInflight = @ \ {off}],
       allow)

FetchSucceedWith(d, allow) ==
  /\ Quiescent
  /\ \E off \in hook[d].inflight :
       Commit([Here({}) EXCEPT !.hook[d] = FetchResolved(hook[d], off, allow)], allow)

FetchSucceed(d) == \E allow \in BOOLEAN : FetchSucceedWith(d, allow)

\* Mutant: a continuation that does not look at the result of fetchAudio and
\* starts the audio the hook holds.
FetchRejected_IgnoresResult(s, d, off) ==
  [s EXCEPT !.hook[d].inflight = @ \ {off}, !.hook[d].isLoading = FALSE,
            !.hook[d].audioStartedRef = TRUE,
            !.hook[d].paused = (s.hook[d].audioUrl = -1)]

\* Mutant: fetchAudio without its finally block.
FetchRejected_NoFinally(s, d, off) ==
  AudioToggle([s EXCEPT !.hook[d].inflight = @ \ {off}])

\* fetchAudio resolves false (service error, non-OK status or the 8 s abort):
\* setIsLoading(false); then the caller's continuation: toggleAudio().
FetchRejected(s, d, off) ==
  AudioToggle([s EXCEPT !.hook[d].inflight = @ \ {off}, !.hook[d].isLoading = FALSE,
                        !.hook[d].oldInflight = @ \ {off}])

\* What makes fetchAudio throw: the service (network error, non-OK status,
\* data.error) or the abort of the 8 s timeout.  The catch block tells them
\* apart only in the message it passes to setError, which no component reads.
FetchFailures == {"service", "timeout"}

FetchFailWith(d, cause) ==
  /\ Quiescent
  /\ cause \in FetchFailures
  /\ \E off \in hook[d].inflight, allow \in BOOLEAN :
       Commit(FetchRejected(Here({}), d, off), allow)

FetchFail(d) == \E cause \in FetchFailures : FetchFailWith(d, cause)

\* --------------------------------------------------------------- media events
\* onloadedmetadata: setDuration(audio.duration).
LoadedMetadata(d) ==
  /\ Quiescent
  /\ hook[d].audioUrl # -1
  /\ hook[d].readyState = 0
  /\ \E allow \in BOOLEAN :
       Commit([Here({}) EXCEPT !.hook[d].readyState = 1,
                               !.hook[d].duration = ChunkWordCount(hook[d].audioUrl)],
              allow)

\* The element has buffered enough to play (readyState > 2); no handler, no
\* render.
CanPlay(d) ==
  /\ Quiescent
  /\ hook[d].readyState = 1
  /\ hook' = [hook EXCEPT ![d].readyState = 4]
  /\ writers' = {}
  /\ UNCHANGED <<currentIndex, isPlaying, isAudioEnabled, rendered, serviceMarks, probe,
                 session>>

\* ontimeupdate while the audio plays: setCurrentTime(audio.currentTime).
TimeUpdate(d) ==
  /\ Quiescent
  /\ IsAudioActive(hook[d])
  /\ \E t \in (hook[d].currentTime + 1)..(ChunkWordCount(hook[d].audioUrl) - 1),
        allow \in BOOLEAN :
       Commit([Here({}) EXCEPT !.hook[d].currentTime = t], allow)

\* Mutant: handleEnded that leaves audioStartedRef set at a chunk boundary.
HandleEnded_KeepStarted(s, d) ==
  IF ~s.isPlaying THEN s
  ELSE LET nextChunkStart == s.hook[d].audioOffsetRef + CHUNK_SIZE IN
       IF nextChunkStart < DocLen
       THEN [s EXCEPT !.currentIndex = Max(s.currentIndex, nextChunkStart),
                      !.writers = {"ended"}]
       ELSE [s EXCEPT !.isPlaying = FALSE,
                      !.hook[d] = Stop(s.hook[d]),
                      !.currentIndex = 0,
                      !.writers = {"ended"}]

\* Mutant: handleEnded that leaves currentIndex where it is when the last
\* chunk has ended.
HandleEnded_KeepIndex(s, d) ==
  IF ~s.isPlaying THEN s
  ELSE LET nextChunkStart == s.hook[d].audioOffsetRef + CHUNK_SIZE IN
       IF nextChunkStart < DocLen
       THEN [s EXCEPT !.currentIndex = Max(s.currentIndex, nextChunkStart),
                      !.hook[d].audioStartedRef = FALSE,
                      !.writers = {"ended"}]
       ELSE [s EXCEPT !.isPlaying = FALSE,
                      !.hook[d] = Stop(s.hook[d]),
                      !.writers = {"ended"}]

\* handleEnded of driver d, with isPlaying and currentIndex of the last render.
HandleEnded(s, d) ==
  IF ~s.isPlaying THEN s
  ELSE LET nextChunkStart == s.hook[d].audioOffsetRef + CHUNK_SIZE IN
       IF nextChunkStart < DocLen
       THEN [s EXCEPT !.currentIndex = Max(s.currentIndex, nextChunkStart),
                      !.hook[d].audioStartedRef = FALSE,
                      !.writers = {"ended"}]
       ELSE [s EXCEPT !.isPlaying = FALSE,
                      !.hook[d] = Stop(s.hook[d]),
                      !.currentIndex = 0,
                      !.writers = {"ended"}]

\* The audio reaches its end, after its last token has been reported: last
\* timeupdate, the element pauses itself and fires `ended'.
AtEnd(h) ==
  [h EXCEPT !.ended = TRUE, !.paused = TRUE,
            !.currentTime = ChunkWordCount(h.audioUrl)]

Ended(d) ==
  /\ Quiescent
  /\ IsAudioActive(hook[d])
  /\ hook[d].currentTime >= ChunkWordCount(hook[d].audioUrl) - 1
  /\ \E allow \in BOOLEAN :
       Commit(HandleEnded([Here({}) EXCEPT !.hook[d] = AtEnd(hook[d])], d), allow)

Next ==
  \/ Render
  \/ TogglePlaySmart
  \/ ToggleAudio
  \/ SeekByTime
  \/ JumpTo
  \/ \E d \in DriverSet : TimerFire(d)
  \/ \E d \in DriverSet : FetchSucceed(d)
  \/ \E d \in DriverSet : FetchFail(d)
  \/ \E d \in DriverSet : LoadedMetadata(d)
  \/ \E d \in DriverSet : CanPlay(d)
  \/ \E d \in DriverSet : TimeUpdate(d)
  \/ \E d \in DriverSet : Ended(d)

Spec == Init /\ [][Next]_vars

\* ------------------------------------------- playback left to itself
\* The state after narration has been switched on and play pressed on the
\* opening document (toggleAudio, then togglePlaySmart and its effect pass).
InitPlay ==
  LET h0 == [d \in DriverSet |-> InitHook]
      before == DepsOf(0, FALSE, TRUE, h0)
      r == DepsOf(0, TRUE, TRUE, h0)
      acc == PassFrom(1, before, r,
                      [hook |-> h0, currentIndex |-> 0, wrote |-> FALSE], TRUE)
  IN /\ currentIndex = acc.currentIndex
     /\ isPlaying = TRUE
     /\ isAudioEnabled = TRUE
     /\ hook = acc.hook
     /\ rendered = r
     /\ writers = {"user"}
     /\ serviceMarks \in BOOLEAN
     /\ probe = NoProbe
     /\ session = InitSession

\* Every step that is not a user action.
NextAuto ==
  \/ Render
  \/ \E d \in DriverSet : TimerFire(d)
  \/ \E d \in DriverSet : FetchSucceed(d)
  \/ \E d \in DriverSet : FetchFail(d)
  \/ \E d \in DriverSet : LoadedMetadata(d)
  \/ \E d \in DriverSet : CanPlay(d)
  \/ \E d \in DriverSet : TimeUpdate(d)
  \/ \E d \in DriverSet : Ended(d)

\* A scheduled render runs, a pending setTimeout fires and a pending fetch
\* settles, however often renders come in between.  Nothing makes the audio
\* element deliver its events: a stream may stall.
SpecFair ==
  /\ InitPlay
  /\ [][NextAuto]_vars
  /\ WF_vars(Render)
  /\ \A d \in DriverSet : SF_vars(TimerFire(d))
  /\ \A d \in DriverSet : SF_vars(FetchSucceed(d) \/ FetchFail(d))

\* ------------------------------------------------- the mapper on its own
\* Mark lists of at most MaxMarks marks, ordered or not, with gaps or not.
MarkSet == {[start |-> a, end |-> b] : a \in 0..MaxTime, b \in 0..(MaxTime + 1)}
Marks == {m \in MarkSet : m.end \in {m.start, m.start + 1}}

RECURSIVE MarkLists(_)
MarkLists(n) ==
  IF n = 0 THEN {<<>>}
  ELSE LET shorter == MarkLists(n - 1)
       IN shorter \cup {Append(ms, m) : ms \in {x \in shorter : Len(x) = n - 1}, m \in Marks}

InitMap ==
  /\ currentIndex = 0
  /\ isPlaying = FALSE
  /\ isAudioEnabled = FALSE
  /\ hook = [d \in DriverSet |-> InitHook]
  /\ rendered = DepsOf(0, FALSE, FALSE, [d \in DriverSet |-> InitHook])
  /\ writers = {}
  /\ serviceMarks = FALSE
  /\ session = InitSession
  /\ \E ms \in MarkLists(MaxMarks), t \in 0..(MaxTime + 1),
        dur \in 0..MaxTime, n \in 1..CHUNK_SIZE :
       /\ Len(ms) > 0 => dur = 0 /\ n = CHUNK_SIZE
       /\ probe = [marks |-> ms, t |-> t, duration |-> dur, chunkWordCount |-> n,
                   rel |-> -2]

\* The sync effect computes relativeIndex for the probe.
MapPosition ==
  /\ probe.rel = -2
  /\ probe' = [probe EXCEPT !.rel = RelativeIndex(probe.marks, probe.t, probe.duration,
                                                  probe.chunkWordCount)]
  /\ UNCHANGED <<currentIndex, isPlaying, isAudioEnabled, hook, rendered, writers,
                 serviceMarks, session>>

NextMap == MapPosition

SpecMap == InitMap /\ [][NextMap]_vars

\* ------------------------------------------------- the store on its own
Abs(x) == IF x < 0 THEN -x ELSE x

\* Mutant: the seek distance rounded to the nearest integer.
WordsToSeek_Round(wpm, seconds) == (wpm * Abs(seconds) + 30) \div 60

\* Math.ceil((wpm / 60) * Math.abs(seconds))
WordsToSeek(wpm, seconds) == (wpm * Abs(seconds) + 59) \div 60

FileIds(files) == {files[i].id : i \in 1..Len(files)}

\* updateRecentFileProgress (the timestamp is not modelled).
UpdateRecentFileProgress(files, id, index) ==
  [i \in 1..Len(files) |->
     IF files[i].id = id THEN [files[i] EXCEPT !.progress = index] ELSE files[i]]

\* setCurrentIndex: the index as given, and the progress of the open file.
StoreSetCurrentIndex(s, index) ==
  [s EXCEPT !.currentIndex = index,
            !.recentFiles = UpdateRecentFileProgress(@, s.currentFileId, index)]

StoreSeekByTime(s, seconds) ==
  LET wordsToSeek == WordsToSeek(s.wpm, seconds)
      newIndex == IF seconds < 0
                  THEN Max(0, s.currentIndex - wordsToSeek)
                  ELSE Min(s.content - 1, s.currentIndex + wordsToSeek)
  IN [s EXCEPT !.currentIndex = newIndex,
               !.recentFiles = UpdateRecentFileProgress(@, s.currentFileId, newIndex)]

\* Mutant: the index is taken back on a pause as well.
StoreTogglePlaySmart_AlwaysRewind(s) ==
  [s EXCEPT !.currentIndex = Max(0, @ - REWIND), !.isPlaying = ~@]

StoreTogglePlaySmart(s) ==
  IF s.isPlaying
  THEN [s EXCEPT !.isPlaying = FALSE]
  ELSE [s EXCEPT !.currentIndex = Max(0, s.currentIndex - REWIND), !.isPlaying = TRUE]

\* Mutant: narration is switched without looking at the speed.
StoreToggleAudio_NoClamp(s) == [s EXCEPT !.isAudioEnabled = ~@]

StoreToggleAudio(s) ==
  LET nextState == ~s.isAudioEnabled
  IN [s EXCEPT !.isAudioEnabled = nextState,
               !.wpm = IF nextState /\ @ > AUDIO_WPM_LIMIT THEN AUDIO_WPM_LIMIT ELSE @]

StoreSetWpm(s, wpm) ==
  [s EXCEPT !.wpm = Min(wpm, IF s.isAudioEnabled THEN AUDIO_WPM_LIMIT ELSE WPM_LIMIT)]

\* setContent: a document of wordCount words named fileName gets the new id;
\* hasText tells whether its fullText is a non-empty string.
StoreSetContent(s, id, fileName, wordCount, hasText) ==
  LET newFile == [id |-> id, name |-> fileName, wordCount |-> wordCount,
                  hasText |-> hasText, progress |-> 0]
      otherFiles == SelectSeq(s.recentFiles, LAMBDA f : f.name # fileName)
      all == <<newFile>> \o otherFiles
  IN [s EXCEPT !.content = wordCount, !.currentFileId = id, !.currentIndex = 0,
               !.isPlaying = FALSE,
               !.recentFiles = SubSeq(all, 1, Min(RECENT_LIMIT, Len(all)))]

StoreLoadRecentFile(s, file) ==
  IF file.hasText
  THEN [s EXCEPT !.content = file.wordCount, !.currentFileId = file.id,
                 !.currentIndex = file.progress, !.isPlaying = FALSE]
  ELSE s

StoreDeleteFile(s, id) ==
  [s EXCEPT !.recentFiles = SelectSeq(@, LAMBDA f : f.id # id),
            !.currentFileId = IF @ = id THEN DEMO_ID ELSE @,
            !.content = IF s.currentFileId = id THEN DEMO_LEN ELSE @]

StoreGoHome(s) ==
  [s EXCEPT !.content = DEMO_LEN, !.currentFileId = DEMO_ID, !.currentIndex = 0,
            !.isPlaying = FALSE]

StoreReset(s) == [s EXCEPT !.currentIndex = 0, !.isPlaying = TRUE]

StoreRestoreSession(s) ==
  IF s.currentFileId # DEMO_ID
     /\ \E i \in 1..Len(s.recentFiles) :
           s.recentFiles[i].id = s.currentFileId /\ s.recentFiles[i].hasText
  THEN LET file == s.recentFiles[CHOOSE i \in 1..Len(s.recentFiles) :
                                   s.recentFiles[i].id = s.currentFileId]
       IN [s EXCEPT !.content = file.wordCount, !.isPlaying = FALSE]
  ELSE s

\* A page load: the initial state with the persisted fields (partialize).
StoreRehydrate(s) ==
  [InitSession EXCEPT !.wpm = s.wpm, !.recentFiles = s.recentFiles,
                      !.currentFileId = s.currentFileId,
                      !.currentIndex = s.currentIndex,
                      !.isAudioEnabled = s.isAudioEnabled]

Seconds == {-10, -1, 0, 1, 10}
FileNames == {"a.txt", "b.txt"}
WpmInputs == {100, 300, 1200}

\* History of a run of the store: for every document id, the index that was
\* last set while that document was open.
LastIndex(last, s) == [last EXCEPT ![s.currentFileId] = s.currentIndex]

StoreFrame ==
  /\ UNCHANGED <<currentIndex, isPlaying, isAudioEnabled, hook, rendered, writers,
                 serviceMarks>>
  /\ probe' = LastIndex(probe, session')

InitStore ==
  /\ currentIndex = 0
  /\ isPlaying = FALSE
  /\ isAudioEnabled = FALSE
  /\ hook = [d \in DriverSet |-> InitHook]
  /\ rendered = DepsOf(0, FALSE, FALSE, [d \in DriverSet |-> InitHook])
  /\ writers = {}
  /\ serviceMarks = FALSE
  /\ probe = [id \in 0..MaxFiles |-> 0]
  /\ session = InitSession

\* setCurrentIndex as its callers use it: the timer callbacks, the sync
\* effect, a chapter jump and a word click pass an index of the open document.
SetCurrentIndexOp ==
  /\ \E index \in 0..(session.content - 1) :
       session' = StoreSetCurrentIndex(session, index)
  /\ StoreFrame

SeekByTimeOp ==
  /\ \E seconds \in Seconds : session' = StoreSeekByTime(session, seconds)
  /\ StoreFrame

TogglePlaySmartOp == session' = StoreTogglePlaySmart(session) /\ StoreFrame

ToggleAudioOp == session' = StoreToggleAudio(session) /\ StoreFrame

SetWpmOp ==
  /\ \E wpm \in WpmInputs : session' = StoreSetWpm(session, wpm)
  /\ StoreFrame

SetContentOp ==
  /\ \E id \in (1..MaxFiles) \ (FileIds(session.recentFiles) \cup {session.currentFileId}),
        fileName \in FileNames, wordCount \in 0..DocLen, hasText \in BOOLEAN :
       /\ wordCount > 0 => hasText
       /\ session' = StoreSetContent(session, id, fileName, wordCount, hasText)
  /\ StoreFrame

LoadRecentFileOp ==
  /\ \E i \in 1..Len(session.recentFiles) :
       session' = StoreLoadRecentFile(session, session.recentFiles[i])
  /\ StoreFrame

DeleteFileOp ==
  /\ \E id \in FileIds(session.recentFiles) : session' = StoreDeleteFile(session, id)
  /\ StoreFrame

GoHomeOp == session' = StoreGoHome(session) /\ StoreFrame

ResetOp == session' = StoreReset(session) /\ StoreFrame

RestoreSessionOp == session' = StoreRestoreSession(session) /\ StoreFrame

RehydrateOp == session' = StoreRehydrate(session) /\ StoreFrame

NextStore ==
  \/ SetCurrentIndexOp
  \/ SeekByTimeOp
  \/ TogglePlaySmartOp
  \/ ToggleAudioOp
  \/ SetWpmOp
  \/ SetContentOp
  \/ LoadRecentFileOp
  \/ DeleteFileOp
  \/ GoHomeOp
  \/ ResetOp
  \/ RestoreSessionOp
  \/ RehydrateOp

SpecStore == InitStore /\ [][NextStore]_vars

\* ------------------------------------------ the request of a chunk on its own
\* A chunk text is a string of blanks and letters.
Chars == {" ", "a"}

RECURSIVE Texts(_)
Texts(n) ==
  IF n = 0 THEN {<<>>}
  ELSE Texts(n - 1) \cup {Append(t, c) : t \in Texts(n - 1), c \in Chars}

\* !text.trim()
IsBlank(text) == \A i \in 1..Len(text) : text[i] = " "

\* ((wpm / 150) - 1) * 100, as a number of thirds of a percent (the rate is a
\* fraction with denominator 3).
RatePercent3(wpm) == 2 * (wpm - BASE_WPM)

\* Mutant: the request carries the rate as it was computed.
ClampRate3_None(rate3) == rate3

\* Math.max(Math.min(rate, 100), -50), in thirds of a percent.
ClampRate3(rate3) == Max(Min(rate3, 3 * RATE_MAX), 3 * RATE_MIN)

\* The positions of the speed slider, and below its minimum.
FetchWpms == {WPM_STEP * k : k \in 0..MaxWpmSteps}

\* Playing with narration on at some speed; the fetch effect is about to ask
\* for a chunk with some text.
InitFetch ==
  /\ currentIndex = 0
  /\ isPlaying = TRUE
  /\ isAudioEnabled = TRUE
  /\ hook = [d \in DriverSet |-> InitHook]
  /\ rendered = DepsOf(0, FALSE, TRUE, [d \in DriverSet |-> InitHook])
  /\ writers = {}
  /\ serviceMarks = FALSE
  /\ \E wpm \in FetchWpms :
       session = [InitSession EXCEPT !.wpm = wpm, !.isPlaying = TRUE,
                                     !.isAudioEnabled = TRUE]
  /\ \E text \in Texts(MaxText) :
       probe = [text |-> text, isLoading |-> FALSE, request |-> <<>>,
                result |-> "none"]

\* fetchAudio(text, ratePercent) up to its first await, and the caller's
\* continuation when it has returned false at once.
FetchChunk ==
  /\ probe.result = "none"
  /\ IF IsBlank(probe.text)
     THEN /\ probe' = [probe EXCEPT !.result = "false"]
          /\ session' = StoreToggleAudio(session)
     ELSE /\ probe' = [probe EXCEPT
                         !.isLoading = TRUE,
                         !.request = <<[text |-> probe.text,
                                        rate3 |-> ClampRate3(RatePercent3(session.wpm))]>>,
                         !.result = "pending"]
          /\ UNCHANGED session
  /\ UNCHANGED <<currentIndex, isPlaying, isAudioEnabled, hook, rendered, writers,
                 serviceMarks>>

NextFetch == FetchChunk

SpecFetch == InitFetch /\ [][NextFetch]_vars

\* ------------------------------------------------- a time-seek on its own
\* A document of MaxSeekLen words open at some index, at some speed; the user
\* is about to press a seek button.
InitSeek ==
  /\ currentIndex = 0
  /\ isPlaying = FALSE
  /\ isAudioEnabled = FALSE
  /\ hook = [d \in DriverSet |-> InitHook]
  /\ rendered = DepsOf(0, FALSE, FALSE, [d \in DriverSet |-> InitHook])
  /\ writers = {}
  /\ serviceMarks = FALSE
  /\ \E wpm \in FetchWpms, index \in 0..(MaxSeekLen - 1) :
       session = [InitSession EXCEPT !.wpm = wpm, !.content = MaxSeekLen,
                                     !.currentIndex = index]
  /\ \E seconds \in Seconds :
       probe = [seconds |-> seconds, before |-> session.currentIndex, done |-> FALSE]

SeekProbe ==
  /\ ~probe.done
  /\ session' = StoreSeekByTime(session, probe.seconds)
  /\ probe' = [probe EXCEPT !.done = TRUE]
  /\ UNCHANGED <<currentIndex, isPlaying, isAudioEnabled, hook, rendered, writers,
                 serviceMarks>>

NextSeek == SeekProbe

SpecSeek == InitSeek /\ [][NextSeek]_vars

\* ------------------------------------------------- loading a document
\* The characters of a loaded text: white space, a letter and a digit. No text
\* over them has a chapter header (both header patterns need a capital).
LoadChars == {" ", "a", "1"}

RECURSIVE LoadTexts(_)
LoadTexts(n) ==
  IF n = 0 THEN {<<>>}
  ELSE LoadTexts(n - 1) \cup {Append(t, c) : t \in LoadTexts(n - 1), c \in LoadChars}

\* The words of text from position i on, cur being the word read so far.
RECURSIVE SplitFrom(_, _, _)
SplitFrom(text, i, cur) ==
  LET word == IF cur = <<>> THEN <<>> ELSE <<cur>>
  IN IF i > Len(text) THEN word
     ELSE IF text[i] = " " THEN word \o SplitFrom(text, i + 1, <<>>)
     ELSE SplitFrom(text, i + 1, Append(cur, text[i]))

\* cleanedText.split(/\s+/).filter(w => w.length > 0)
ProcessedToWords(text) == SplitFrom(text, 1, <<>>)

\* The length of text without its trailing white space.
RECURSIVE TrimmedLen(_)
TrimmedLen(text) ==
  IF text # <<>> /\ text[Len(text)] = " "
  THEN TrimmedLen(SubSeq(text, 1, Len(text) - 1))
  ELSE Len(text)

\* The number of digits text[1..n] ends with.
RECURSIVE DigitsBefore(_, _)
DigitsBefore(text, n) ==
  IF n > 0 /\ text[n] = "1" THEN 1 + DigitsBefore(text, n - 1) ELSE 0

\* .replace(/\s+\d+\s*$/gm, ' '): a number that ends the line (here the text)
\* after white space is taken for a page number and replaced by a blank,
\* together with the white space around it.
StripPageNumber(text) ==
  LET n == TrimmedLen(text)
      p == n - DigitsBefore(text, n)
  IN IF p < n /\ p > 0 /\ text[p] = " "
     THEN Append(SubSeq(text, 1, TrimmedLen(SubSeq(text, 1, p))), " ")
     ELSE text

\* words.join(" ")
RECURSIVE JoinWords(_)
JoinWords(words) ==
  IF words = <<>> THEN <<>>
  ELSE IF Len(words) = 1 THEN words[1]
  ELSE words[1] \o <<" ">> \o JoinWords(Tail(words))

\* cleanText: the page-number step, then runs of white space become one blank
\* and the ends are trimmed, which leaves the words joined by single blanks.
\* The steps for line-end hyphens, leader dots and unusual symbols find
\* nothing in a text over LoadChars.
CleanText(text) == JoinWords(ProcessedToWords(StripPageNumber(text)))

\* detectChapters on a text in which neither header pattern matches.
DetectChapters(fullText) ==
  LET words == ProcessedToWords(fullText)
  IN [words |-> words,
      chapters |-> <<[title |-> "Full Text", startIndex |-> 0,
                      wordCount |-> Len(words)]>>]

\* extractTextFromTXT: the words of the cleaned text, the chapters of the raw
\* text.
ExtractTextFromTXT(text) ==
  [words |-> ProcessedToWords(CleanText(text)),
   chapters |-> DetectChapters(text).chapters]

\* The words, chapters and fullText that setContent derives from its input, a
\* plain string or the result of an extractor.
SetContentInput(input, isString) ==
  IF isString
  THEN LET words == ProcessedToWords(input)
       IN [words |-> words,
           chapters |-> <<[title |-> "Chapter 1", startIndex |-> 0,
                           wordCount |-> Len(words)]>>,
           fullText |-> input]
  ELSE [words |-> input.words, chapters |-> input.chapters,
        fullText |-> JoinWords(input.words)]

LoadSources == {"string", "txt"}

\* A text is about to be loaded, pasted as a string or read from a TXT file.
InitLoad ==
  /\ currentIndex = 0
  /\ isPlaying = FALSE
  /\ isAudioEnabled = FALSE
  /\ hook = [d \in DriverSet |-> InitHook]
  /\ rendered = DepsOf(0, FALSE, FALSE, [d \in DriverSet |-> InitHook])
  /\ writers = {}
  /\ serviceMarks = FALSE
  /\ session = InitSession
  /\ \E text \in LoadTexts(MaxText), source \in LoadSources :
       probe = [text |-> text, source |-> source, content |-> <<>>,
                chapters |-> <<>>, done |-> FALSE]

\* setContent(text) or setContent(await extractTextFromTXT(file)): the
\* session receives the words and the chapters.
LoadDocument ==
  /\ ~probe.done
  /\ LET in == IF probe.source = "string"
               THEN SetContentInput(probe.text, TRUE)
               ELSE SetContentInput(ExtractTextFromTXT(probe.text), FALSE)
     IN /\ probe' = [probe EXCEPT !.content = in.words,
                                  !.chapters = in.chapters, !.done = TRUE]
        /\ session' = StoreSetContent(session, 1, "a.txt", Len(in.words),
                                      in.fullText # <<>>)
  /\ UNCHANGED <<currentIndex, isPlaying, isAudioEnabled, hook, rendered, writers,
                 serviceMarks>>

NextLoad == LoadDocument

SpecLoad == InitLoad /\ [][NextLoad]_vars

\* ------------------------------------------------- a play/pause on its own
\* A document of MaxSeekLen words open at some index, playing or paused, with
\* narration on or off; the user is about to press play/pause.
InitToggle ==
  /\ currentIndex = 0
  /\ isPlaying = FALSE
  /\ isAudioEnabled = FALSE
  /\ hook = [d \in DriverSet |-> InitHook]
  /\ rendered = DepsOf(0, FALSE, FALSE, [d \in DriverSet |-> InitHook])
  /\ writers = {}
  /\ serviceMarks = FALSE
  /\ \E index \in 0..(MaxSeekLen - 1), playing \in BOOLEAN, audio \in BOOLEAN :
       session = [InitSession EXCEPT !.content = MaxSeekLen,
                                     !.currentIndex = index,
                                     !.isPlaying = playing,
                                     !.isAudioEnabled = audio]
  /\ probe = [before |-> session, done |-> FALSE]

TogglePlayProbe ==
  /\ ~probe.done
  /\ session' = StoreTogglePlaySmart(session)
  /\ probe' = [probe EXCEPT !.done = TRUE]
  /\ UNCHANGED <<currentIndex, isPlaying, isAudioEnabled, hook, rendered, writers,
                 serviceMarks>>

NextToggle == TogglePlayProbe

SpecToggle == InitToggle /\ [][NextToggle]_vars

\* ------------------------------------------------- a passive instance
\* ControlBar calls useRSVP(false): an instance of the hook with its own
\* useEdgeTTS state, audio element and refs, beside the driver instances.
Passive == "ControlBar"

\* The dependency values of a render of the passive instance with hook state h.
PassiveDeps(ci, pl, au, h) ==
  [ currentIndex |-> ci, isPlaying |-> pl, isAudioEnabled |-> au,
    h |-> [d \in {Passive} |->
             [ isLoading |-> h.isLoading, audioUrl |-> h.audioUrl,
               marks |-> h.marks, currentTime |-> h.currentTime,
               duration |-> h.duration ]] ]

\* Mutant: a timer effect that does not look at isDriver.
UseRSVPTimer_Ungated(isDriver, r, d, h) == TimerEffect(r, d, h)

\* The three effects of useRSVP(isDriver): each starts with
\* `if (!isDriver) return' (the sync effect: `if (!isDriver || ...) return').
UseRSVPFetch(isDriver, r, d, h, allow) ==
  IF ~isDriver THEN h ELSE FetchEffect(r, d, h, allow)

UseRSVPSync(isDriver, r, d, h) ==
  IF ~isDriver THEN -1 ELSE SyncTarget(r, d, h)

UseRSVPTimer(isDriver, r, d, h) ==
  IF ~isDriver THEN h ELSE TimerEffect(r, d, h)

\* One pass of the effects of one instance: its hook state afterwards and the
\* index it has passed to setCurrentIndex, or -1.
InstancePass(isDriver, old, r, d, h0, allow) ==
  LET h1 == IF FetchRuns(old, r, d) THEN UseRSVPFetch(isDriver, r, d, h0, allow) ELSE h0
      tgt == IF SyncRuns(old, r, d, h0) THEN UseRSVPSync(isDriver, r, d, h1) ELSE -1
      h2 == IF TimerRuns(old, r, d) THEN UseRSVPTimer(isDriver, r, d, h1) ELSE h1
  IN [hook |-> h2, target |-> tgt]

\* The `ended' listener is registered whatever isDriver is; an element fires
\* `ended' only when it has played to its end.
CanEnd(h) == IsAudioActive(h)

InitPassive ==
  /\ currentIndex = 0
  /\ isPlaying = FALSE
  /\ isAudioEnabled = FALSE
  /\ hook = [d \in DriverSet |-> InitHook]
  /\ rendered = PassiveDeps(0, FALSE, FALSE, InitHook)
  /\ writers = {}
  /\ serviceMarks = FALSE
  /\ session = InitSession
  /\ probe = [hook |-> InitHook, wrote |-> FALSE]

\* The store changes, by a user action or by a driver instance, and the
\* passive instance renders and runs its effects.
PassiveStoreChange ==
  \E ci \in 0..(DocLen - 1), pl \in BOOLEAN, au \in BOOLEAN, wpm \in FetchWpms,
     allow \in BOOLEAN :
    LET r == PassiveDeps(ci, pl, au, probe.hook)
        pass == InstancePass(FALSE, rendered, r, Passive, probe.hook, allow)
    IN /\ currentIndex' = IF pass.target # -1 THEN pass.target ELSE ci
       /\ isPlaying' = pl
       /\ isAudioEnabled' = au
       /\ rendered' = r
       /\ probe' = [hook |-> pass.hook, wrote |-> probe.wrote \/ pass.target # -1]
       /\ session' = [session EXCEPT
                        !.wpm = Min(wpm, IF au THEN AUDIO_WPM_LIMIT ELSE WPM_LIMIT),
                        !.currentIndex = currentIndex', !.isPlaying = pl,
                        !.isAudioEnabled = au]
       /\ UNCHANGED <<hook, writers, serviceMarks>>

NextPassive == PassiveStoreChange

SpecPassive == InitPassive /\ [][NextPassive]_vars

\* ------------------------------------------------- replacing the document
\* From the replacement on, the audio a driver holds and the fetches it
\* awaits belong to the previous document.
Outdated(h) == [h EXCEPT !.oldChunk = (h.audioUrl # -1), !.oldInflight = h.inflight]

\* `content' is a dependency of the fetch effect and of the timer effect:
\* both run again in every driver when the document changes.
ContentEffects(s, allow) ==
  LET r == DepsOf(s.currentIndex, s.isPlaying, s.isAudioEnabled, s.hook)
  IN [s EXCEPT !.hook = [d \in DriverSet |->
                           TimerEffect(r, d, FetchEffect(r, d, s.hook[d], allow))]]

\* setContent and goHome (currentIndex 0, isPlaying false), loadRecentFile
\* (currentIndex = progress, isPlaying false) and deleteFile of the open file
\* (content only).  The new document has DocLen tokens as well; the hook
\* instances stay mounted.
ReplaceKinds == {"setContent", "loadRecentFile", "deleteFile"}

ReplaceDocument ==
  /\ Quiescent
  /\ \E kind \in ReplaceKinds, progress \in 0..(DocLen - 1), allow \in BOOLEAN :
       LET s0 == [Here({"user"}) EXCEPT !.hook = [d \in DriverSet |-> Outdated(hook[d])]]
           s1 == IF kind = "setContent"
                 THEN [s0 EXCEPT !.currentIndex = 0, !.isPlaying = FALSE]
                 ELSE IF kind = "loadRecentFile"
                 THEN [s0 EXCEPT !.currentIndex = progress, !.isPlaying = FALSE]
                 ELSE s0
       IN Commit(ContentEffects(s1, allow), allow)

\* Playback with narration on, the user at the play/pause button and at the
\* library.
NextReplace == NextAuto \/ TogglePlaySmart \/ ReplaceDocument

SpecReplace == InitPlay /\ [][NextReplace]_vars

\* ================================================================== claims
TimerStep == \E d \in DriverSet : TimerFire(d)

\* C1 (as stated): with narration off and playing, every timer tick moves
\* currentIndex from i to exactly i + 1, and isPlaying becomes false exactly
\* when currentIndex reaches len(tokens).
C1_TickReachesLen ==
  [][ (~isAudioEnabled /\ isPlaying /\ TimerStep)
        => /\ currentIndex' = currentIndex + 1
           /\ (~isPlaying' <=> currentIndex' = DocLen) ]_vars

\* C1 (amended): with narration off and playing, a tick on a token before the
\* last moves currentIndex from i to exactly i + 1 and keeps playing; the tick
\* on the last token (i = len(tokens) - 1) leaves currentIndex where it is and
\* sets isPlaying to false, so playback stops at len(tokens) - 1.
C1_TickByOneStopsOnLast ==
  [][ (~isAudioEnabled /\ isPlaying /\ TimerStep)
        => IF currentIndex + 1 < DocLen
           THEN currentIndex' = currentIndex + 1 /\ isPlaying'
           ELSE currentIndex' = currentIndex /\ ~isPlaying' ]_vars

\* A tick has just advanced the index to the last token in timer mode.
C1_Witness ==
  /\ writers = {"timer"} /\ ~isAudioEnabled /\ isPlaying
  /\ currentIndex = DocLen - 1
  /\ \A d \in DriverSet : hook[d].timerRef = currentIndex

\* C2: a timer tick, standard or fail-safe, never leaves currentIndex beyond
\* len(tokens) - 1, and the tick that fires on the last token sets isPlaying
\* to false instead of advancing the index: every step either ends with
\* currentIndex <= len(tokens) - 1 and, taken on the last token, with the
\* index unchanged and isPlaying false, or it is not a timer tick.
C2_TimerNeverPastEnd ==
  [][ \/ /\ currentIndex' <= DocLen - 1
         /\ (currentIndex = DocLen - 1 => ~isPlaying' /\ currentIndex' = currentIndex)
      \/ ~TimerStep ]_vars

\* A fail-safe tick (narration on, the fetch still in flight) has reached the
\* last token.
C2_Witness ==
  /\ writers = {"timer"} /\ isAudioEnabled /\ isPlaying
  /\ currentIndex = DocLen - 1
  /\ \E d \in DriverSet : hook[d].isLoading /\ hook[d].timerRef = currentIndex

\* C3: in one evaluation cycle (a handler and the renders it causes) a timer
\* tick and an audio-driven update never both set currentIndex.
C3_OneWriterPerCycle == ~({"timer", "audio"} \subseteq writers)

\* A chunk of driver state h is Ready (fetched and started) or Fetching.
ChunkReady(h) == h.audioStartedRef /\ h.audioUrl # -1 /\ ~h.isLoading
ChunkFetching(h) == h.isLoading
InWindow(h, i) == h.audioOffsetRef <= i /\ i < h.audioOffsetRef + CHUNK_SIZE

\* C4: when a chapter jump or word click sets currentIndex outside the window
\* of a chunk that is Ready or Fetching, that chunk's driver is stopped
\* (paused, position 0) in the resulting state, and a fetch it then has in
\* flight is for the sought index.
C4_SeekInvalidatesChunk ==
  [][ \A index \in 0..(DocLen - 1), d \in DriverSet :
        ( /\ JumpToIndex(index)
          /\ isPlaying /\ isAudioEnabled
          /\ ChunkReady(hook[d]) \/ ChunkFetching(hook[d])
          /\ ~InWindow(hook[d], index) )
        => /\ hook'[d].paused /\ hook'[d].currentTime = 0
           /\ hook'[d].isLoading => hook'[d].inflight = {index} ]_vars

\* C5: a fetch that resolves after a user seek has moved currentIndex in
\* front of its chunk (no instance has audio loaded, so only a user seek can
\* have moved the index backwards) is discarded: no audio is loaded or
\* played and no marks are stored.
C5_StaleFetchDiscarded ==
  [][ \A d \in DriverSet :
        ( /\ FetchSucceed(d)
          /\ \A e \in DriverSet : hook[e].audioUrl = -1
          /\ currentIndex < hook[d].audioOffsetRef )
        => /\ hook'[d].audioUrl = -1
           /\ hook'[d].paused
           /\ ~hook'[d].audioStartedRef ]_vars

RECURSIVE Outstanding(_)
Outstanding(i) ==
  IF i > Len(Drivers) THEN 0
  ELSE Cardinality(hook[Drivers[i]].inflight) + Outstanding(i + 1)

\* C6: in every reachable state at most one narration fetch is outstanding
\* for the session.
C6_OneFetchInFlight == Outstanding(1) <= 1

\* C7: whenever a narration fetch resolves as failed, isAudioEnabled is
\* false in the resulting state.
C7_FailureDisablesNarration ==
  [][ (\E d \in DriverSet : FetchFail(d)) => ~isAudioEnabled' ]_vars

\* C8: isAudioEnabled becomes true only by the user's narration toggle, and
\* the step in which a fetch fails issues no further fetch.
C8_DisableIsOneWay ==
  [][ /\ (~isAudioEnabled /\ isAudioEnabled') => ToggleAudio
      /\ \A d \in DriverSet : FetchFail(d) => \A e \in DriverSet :
             hook'[e].inflight \subseteq hook[e].inflight ]_vars

Sorted(ms) == \A i \in 1..(Len(ms) - 1) : ms[i].start <= ms[i + 1].start

\* C10: for a mark list ordered by start time and a position t, the mark
\* search returns -1 when t is before the first mark's start, and i (0-based)
\* when t is at or after mark i's start and before mark i+1's start, or at or
\* after the last mark's start.
C10_StickySearch ==
  (probe.rel # -2 /\ Len(probe.marks) > 0 /\ Sorted(probe.marks))
    => /\ probe.t < probe.marks[1].start => probe.rel = -1
       /\ \A i \in 1..Len(probe.marks) :
            ( /\ probe.t >= probe.marks[i].start
              /\ i = Len(probe.marks) \/ probe.t < probe.marks[i + 1].start )
            => probe.rel = i - 1

\* A position in the gap after the first mark's end and before the second
\* mark's start has been mapped to the first mark.
C10_Witness ==
  /\ probe.rel = 0 /\ Len(probe.marks) >= 2 /\ Sorted(probe.marks)
  /\ probe.t >= probe.marks[1].end /\ probe.t > probe.marks[1].start
  /\ probe.t < probe.marks[2].start

\* C11: with an empty mark list and a duration > 0 the mapper returns
\* floor(t / duration * windowSize) clamped to [0, windowSize): a position
\* equal to the duration gives windowSize - 1.
C11_InterpolationClamped ==
  (probe.rel # -2 /\ Len(probe.marks) = 0 /\ probe.duration > 0)
    => probe.rel = Max(0, Min(probe.chunkWordCount - 1,
                              (probe.t * probe.chunkWordCount) \div probe.duration))

\* C12: for every mark list, duration and position the relative index the
\* mapper computes is -1 or lies in [0, windowSize).
C12_RelativeIndexInWindow ==
  probe.rel # -2
    => \/ probe.rel = -1
       \/ 0 <= probe.rel /\ probe.rel < probe.chunkWordCount

\* C13: in every reachable state of the store 0 <= currentIndex <=
\* len(tokens).
C13_IndexWithinDocument ==
  0 <= session.currentIndex /\ session.currentIndex <= session.content

\* C14: after seekByTime, for every seconds value, wpm and document length
\* (the empty document included), 0 <= currentIndex < len(tokens).
C14_SeekStaysInRange ==
  [][ SeekByTimeOp
        => 0 <= session'.currentIndex /\ session'.currentIndex < session'.content ]_vars

UserStep == TogglePlaySmart \/ SeekByTime \/ JumpTo
EndedStep == \E d \in DriverSet : Ended(d)

\* C15: apart from user seeks (and the end of a chunk's audio) no step sets
\* currentIndex to a smaller value than it had: neither a fail-safe tick nor
\* an audio-driven update moves the index backwards.
C15_IndexNonDecreasing ==
  [][ currentIndex' >= currentIndex \/ UserStep \/ EndedStep ]_vars

\* C16: whenever a chunk is the active driver (narration on and playing, its
\* audio active, the effects up to date), offset <= currentIndex <
\* offset + windowSize for that chunk's offset.
C16_IndexInActiveWindow ==
  \A d \in DriverSet :
    (isPlaying /\ isAudioEnabled /\ Quiescent /\ IsAudioActive(hook[d]))
      => InWindow(hook[d], currentIndex)

\* C17: in every state with isPlaying = false (or currentIndex >=
\* len(tokens)) no timer is pending and no narration audio is playing.
C17_PausedMeansIdle ==
  (~isPlaying \/ currentIndex >= DocLen)
    => \A d \in DriverSet : hook[d].timerRef = -1 /\ hook[d].paused

\* C18: when the play() of a fetched chunk is refused by the platform while
\* playing with narration on, the driver is Blocked (isBlocked = true) in the
\* resulting state and a fail-safe timer is pending.
C18_RefusedPlayBlocks ==
  [][ \A d \in DriverSet :
        (isPlaying /\ isAudioEnabled /\ FetchSucceedWith(d, FALSE))
          => hook'[d].isBlocked /\ hook'[d].timerRef # -1 ]_vars

\* C19: no freeze.  Left to itself under fair scheduling, playback with
\* narration on does not come to a standstill: either playback (or narration)
\* stops again and again, or again and again a step changes currentIndex or a
\* fail-safe timer tick fires.
C19_NoFreeze ==
  \/ []<>(~isPlaying \/ ~isAudioEnabled)
  \/ []<><<currentIndex' # currentIndex \/ TimerStep>>_vars

\* C20: one audio playback unit for the session: at any time all the audio
\* that is loaded or playing belongs to one and the same unit.
C20_OneAudioUnit ==
  Cardinality({d \in DriverSet : hook[d].audioUrl # -1 \/ ~hook[d].paused}) <= 1

\* C21: with narration off, the narration audio is not playing, and a step
\* that is not a user action changes currentIndex only if it is a timer tick
\* (no audio position update and no end of audio moves the index); also after
\* a fetch that was in flight when narration was switched off has succeeded.
C21_NarrationOffTimerOnly ==
  [][ ~isAudioEnabled' =>
        /\ \A d \in DriverSet : hook'[d].paused
        /\ (~isAudioEnabled /\ currentIndex' # currentIndex) => (TimerStep \/ UserStep) ]_vars

\* C22: a fetch that runs into the timeout ends exactly as a fetch that fails
\* with a service error: the same step, after which isLoading is false, the
\* audio source and the marks are the ones held before, and narration is
\* disabled.
C22_TimeoutIsFailure ==
  [][ \A d \in DriverSet :
        /\ FetchFailWith(d, "timeout") <=> FetchFailWith(d, "service")
        /\ FetchFailWith(d, "timeout") =>
             /\ ~hook'[d].isLoading
             /\ hook'[d].audioUrl = hook[d].audioUrl
             /\ hook'[d].marks = hook[d].marks
             /\ ~isAudioEnabled' ]_vars

\* C23: when the audio of a chunk at offset o ends while playing and
\* o + CHUNK_SIZE < len(tokens), currentIndex after the step is
\* max(currentIndex before the step, o + CHUNK_SIZE).
C23_ChunkEndNeverRegresses ==
  [][ \A d \in DriverSet :
        (isPlaying /\ hook[d].audioUrl + CHUNK_SIZE < DocLen /\ Ended(d))
        => currentIndex' = Max(currentIndex, hook[d].audioUrl + CHUNK_SIZE) ]_vars

\* C24: when the audio of a chunk at offset o ends while playing and
\* o + CHUNK_SIZE >= len(tokens), then after the step isPlaying is false, the
\* driver's audio is paused at position 0, currentIndex is 0 and no driver
\* has started a fetch.
C24_LastChunkEndStops ==
  [][ \A d \in DriverSet :
        (isPlaying /\ hook[d].audioUrl + CHUNK_SIZE >= DocLen /\ Ended(d))
        => /\ ~isPlaying'
           /\ hook'[d].paused /\ hook'[d].currentTime = 0
           /\ currentIndex' = 0
           /\ \A e \in DriverSet : hook'[e].inflight \subseteq hook[e].inflight ]_vars

\* The audio of the last chunk has ended: playback is stopped at the start of
\* the document.
C24_Witness ==
  /\ writers = {"ended"} /\ ~isPlaying /\ currentIndex = 0
  /\ \E d \in DriverSet :
       /\ hook[d].audioUrl # -1 /\ hook[d].audioUrl + CHUNK_SIZE >= DocLen
       /\ hook[d].paused /\ hook[d].currentTime = 0 /\ hook[d].inflight = {}

C26_BlankChunkSkipped ==
  (probe.result # "none" /\ IsBlank(probe.text))
    => /\ probe.request = <<>>
       /\ ~probe.isLoading
       /\ session.isAudioEnabled

\* C27: a driver instance never has more than one pending timer.
C27_OneTimerPerDriver ==
  \A d \in DriverSet : Len(PendingTimers(hook[d])) <= 1

\* A seek while playing has re-evaluated the timer effect: the timer pending
\* at the old index is gone and one timer is pending at the new index.
C27_Witness ==
  /\ isPlaying /\ "user" \in writers /\ currentIndex > 0
  /\ \E d \in DriverSet : PendingTimers(hook[d]) = <<currentIndex>>

ProgressIsIndex(s) ==
  \A i \in 1..Len(s.recentFiles) :
    s.recentFiles[i].id = s.currentFileId => s.recentFiles[i].progress = s.currentIndex

\* C28: after setCurrentIndex, seekByTime, togglePlaySmart, reset, setContent
\* and loadRecentFile, the entry of the open document in recentFiles, if there
\* is one, has progress = currentIndex.
C28_ProgressTracksIndex ==
  [][ ( \/ SetCurrentIndexOp \/ SeekByTimeOp \/ TogglePlaySmartOp
        \/ ResetOp \/ SetContentOp \/ LoadRecentFileOp )
      => ProgressIsIndex(session') ]_vars

\* The seek of the probe has gone `words' tokens in the direction of the
\* seconds given, as far as the document reaches.
SeekMovedBy(words) ==
  session.currentIndex =
    IF probe.seconds < 0
    THEN Max(0, probe.before - words)
    ELSE Min(session.content - 1, probe.before + words)

\* C29 (as stated): a time-seek of s seconds at rate wpm moves currentIndex by
\* round(wpm / 60 * |s|) tokens in the direction of s, before clamping to the
\* document.
C29_SeekMovesRound ==
  probe.done => SeekMovedBy((2 * session.wpm * Abs(probe.seconds) + 60) \div 120)

\* C29 (amended): the seek moves by the least whole number of tokens that is
\* not less than wpm / 60 * |s|.
C29_SeekMovesCeil ==
  probe.done =>
    LET x == session.wpm * Abs(probe.seconds)
    IN SeekMovedBy(CHOOSE n \in 0..x : 60 * n >= x /\ 60 * (n - 1) < x)

\* A forward seek inside the document has gone further than the nearest
\* whole number of tokens.
C29_Witness ==
  /\ probe.done /\ probe.seconds > 0
  /\ session.currentIndex < session.content - 1
  /\ 60 * (session.currentIndex - probe.before) > session.wpm * probe.seconds
  /\ (session.wpm * probe.seconds) % 60 < 30

\* C30: the rate of a request is the percentage offset (wpm / 150 - 1) * 100
\* when that lies between -50 and 100, -50 when it is below and 100 when it
\* is above; no request carries a rate outside that range.
C30_RateClamped ==
  probe.request # <<>> =>
    LET rate3 == probe.request[1].rate3
        offset3 == 2 * session.wpm - 2 * BASE_WPM
    IN /\ 3 * RATE_MIN <= rate3 /\ rate3 <= 3 * RATE_MAX
       /\ (3 * RATE_MIN <= offset3 /\ offset3 <= 3 * RATE_MAX) => rate3 = offset3
       /\ offset3 < 3 * RATE_MIN => rate3 = 3 * RATE_MIN
       /\ offset3 > 3 * RATE_MAX => rate3 = 3 * RATE_MAX

\* A request at a speed above 300 wpm has been sent with the rate 100.
C30_Witness ==
  /\ probe.request # <<>>
  /\ 2 * session.wpm - 2 * BASE_WPM > 3 * RATE_MAX
  /\ probe.request[1].rate3 = 3 * RATE_MAX

\* C31: when a document is loaded without detected structure (setContent with
\* a plain string, or detectChapters finding no header), the session receives
\* exactly one chapter with startIndex 0 and wordCount equal to len(tokens).
C31_OneChapterSpansAll ==
  probe.done =>
    /\ Len(probe.chapters) = 1
    /\ probe.chapters[1].startIndex = 0
    /\ probe.chapters[1].wordCount = Len(probe.content)
    /\ session.content = Len(probe.content)

\* C32: resume round-trip: if currentIndex was last set to i while document d
\* was open, then after opening any other documents and calling
\* loadRecentFile on d's recent-file entry, currentFileId is d's id,
\* currentIndex = i and isPlaying = false.
C32_ResumeRoundTrip ==
  [][ \A k \in 1..Len(session.recentFiles) :
        LET file == session.recentFiles[k]
        IN (LoadRecentFileOp /\ session' = StoreLoadRecentFile(session, file))
             => /\ session'.currentFileId = file.id
                /\ session'.currentIndex = probe[file.id]
                /\ ~session'.isPlaying ]_vars

\* C36: in every state reached through setWpm and toggleAudio calls (the
\* toggle performed on fetch failure included), isAudioEnabled = true implies
\* wpm <= 250, and wpm <= 1000 always; turning narration on with wpm > 250
\* lowers wpm to 250 and turning it off leaves wpm unchanged.
C36_WpmWithinLimits ==
  /\ [](/\ session.wpm <= WPM_LIMIT
        /\ session.isAudioEnabled => session.wpm <= AUDIO_WPM_LIMIT)
  /\ [][ ToggleAudioOp =>
           IF session.isAudioEnabled
           THEN ~session'.isAudioEnabled /\ session'.wpm = session.wpm
           ELSE /\ session'.isAudioEnabled
                /\ session.wpm > AUDIO_WPM_LIMIT => session'.wpm = AUDIO_WPM_LIMIT ]_vars

\* Narration is on at the highest speed it allows.
C36_Witness == session.isAudioEnabled /\ session.wpm = AUDIO_WPM_LIMIT

\* C37: togglePlaySmart when playing sets isPlaying to false and leaves
\* currentIndex unchanged; when paused it sets isPlaying to true and
\* currentIndex to max(0, currentIndex - 10); content, wpm, isAudioEnabled
\* and currentFileId are unchanged in both cases.
C37_TogglePlaySmartFrame ==
  probe.done =>
    LET before == probe.before
    IN /\ IF before.isPlaying
          THEN ~session.isPlaying /\ session.currentIndex = before.currentIndex
          ELSE /\ session.isPlaying
               /\ session.currentIndex =
                    IF before.currentIndex - 10 > 0 THEN before.currentIndex - 10 ELSE 0
       /\ session.content = before.content
       /\ session.wpm = before.wpm
       /\ session.isAudioEnabled = before.isAudioEnabled
       /\ session.currentFileId = before.currentFileId

\* Play has been pressed while paused more than ten tokens into the document.
C37_Witness ==
  /\ probe.done /\ ~probe.before.isPlaying
  /\ session.currentIndex > 0 /\ session.currentIndex = probe.before.currentIndex - 10

\* The fetch of driver d at offset off leaves isLoading false when it
\* resolves, with audio or with a failure, before any effect runs again.
ResolvesNotLoading(d, off) ==
  /\ \A allow \in BOOLEAN : ~FetchResolved(hook[d], off, allow).isLoading
  /\ ~FetchRejected(Here({}), d, off).hook[d].isLoading

\* C38: every fetchAudio call that sets isLoading to true eventually sets it
\* back to false, whether the fetch succeeds or fails (service error, non-OK
\* status, abort by the timeout): a pending fetch resolves, its resolution
\* leaves isLoading false, and isLoading is never true with no fetch pending.
C38_LoadingEnds ==
  /\ [](\A d \in DriverSet :
          /\ hook[d].isLoading => hook[d].inflight # {}
          /\ \A off \in hook[d].inflight : ResolvesNotLoading(d, off))
  /\ \A d \in DriverSet :
       \/ []<>(~hook[d].isLoading)
       \/ []<><<FetchSucceed(d) \/ FetchFail(d)>>_vars

\* A fetch has failed while playing: narration is off and the driver whose
\* fetch it was is not loading.
C38_Witness ==
  /\ isPlaying /\ ~isAudioEnabled
  /\ \E d \in DriverSet : ~hook[d].isLoading /\ hook[d].inflight = {}

\* C34: a passive instance of the scheduler hook (useRSVP(false)) never starts
\* a fetch, never calls play, pause or stop, never schedules a timer and
\* never changes currentIndex, isPlaying or isAudioEnabled, in any state and
\* for any sequence of store changes: its fetch, audio and timer state stay
\* as constructed, its element never plays (so its `ended' listener is never
\* called) and the store holds what the change has set.
C34_PassiveDoesNothing ==
  /\ probe.hook = InitHook
  /\ ~probe.wrote
  /\ ~CanEnd(probe.hook)
  /\ currentIndex = session.currentIndex
  /\ isPlaying = session.isPlaying
  /\ isAudioEnabled = session.isAudioEnabled

\* The passive instance has rendered while playing with narration on, the
\* state in which a driver fetches and schedules the fail-safe timer.
C34_Witness ==
  /\ rendered.isPlaying /\ rendered.isAudioEnabled /\ rendered.currentIndex > 0
  /\ probe.hook.inflight = {} /\ probe.hook.timerRef = -1

\* C35: a playback-ended event delivered while isPlaying is false changes
\* nothing: currentIndex, isPlaying and the chunk state (offset, started
\* flag) are unchanged and no fetch is started; and when playback is later
\* resumed, the chunk that has ended is not played again.
C35_EndedWhilePausedIgnored ==
  [][ \A d \in DriverSet :
        /\ (~isPlaying /\ Ended(d))
             => /\ currentIndex' = currentIndex
                /\ isPlaying' = isPlaying
                /\ hook'[d].audioOffsetRef = hook[d].audioOffsetRef
                /\ hook'[d].audioStartedRef = hook[d].audioStartedRef
                /\ hook'[d].inflight = hook[d].inflight
        /\ (~isPlaying /\ hook[d].ended /\ hook[d].audioStartedRef /\ TogglePlaySmart)
             => hook'[d].paused ]_vars

\* C33: after the document is replaced (setContent, loadRecentFile, goHome or
\* deleteFile of the current file), no narration chunk fetched for the
\* previous document is used in the new one: no element starts or resumes
\* audio that was requested for the previous document, and no sync step sets
\* currentIndex while only such audio is playing.
C33_NoChunkAcrossDocuments ==
  [][ /\ \A d \in DriverSet :
           (hook'[d].oldChunk /\ ~hook'[d].paused) => ~hook[d].paused
      /\ "audio" \in writers'
           => \E d \in DriverSet : IsAudioActive(hook'[d]) /\ ~hook'[d].oldChunk ]_vars

====
